---- MODULE Spec2Model ----
(***************************************************************************)
(* A model of the MAX31865 driver of src/src/lib.rs: the register map, the *)
(* chip-select framed bus transactions (write, read_many), the public      *)
(* operations of Max31865 and the conversion arithmetic.                   *)
(*                                                                         *)
(* The driver is synchronous and single-threaded.  Each public operation   *)
(* is entered from the idle position and runs, statement by statement, to  *)
(* its return; pc is the position inside the operation, and while pc is    *)
(* not "idle" only the running operation's next statement is enabled.      *)
(* The collaborators (pins, bus) answer each call with an outcome drawn    *)
(* from a small set.                                                       *)
(***************************************************************************)
EXTENDS Integers, Sequences, FiniteSets, TLC

VARIABLES
    overflow_checks, \* build profile: TRUE when integer overflow panics
    ncs,             \* level of the chip-select line: "high" or "low"
    calibration,     \* Max31865.calibration (u32)
    pc,              \* position of the caller inside the driver
    call,            \* the public operation entered last, with its arguments
    txn,             \* register and value of the running write / read_many
    buffer,          \* read_many's buffer
    msb,             \* read_raw's local msb
    events,          \* pin drives and bus transfers of the operation, in order
    result           \* what the operation returned

vars == <<overflow_checks, ncs, calibration, pc, call, txn, buffer, msb,
          events, result>>

----------------------------------------------------------------------------
(* Fixed-width integer arithmetic.                                         *)

RECURSIVE BitOr(_, _)
BitOr(a, b) ==
    IF a = 0 THEN b
    ELSE IF b = 0 THEN a
    ELSE (IF a % 2 = 1 \/ b % 2 = 1 THEN 1 ELSE 0)
         + 2 * BitOr(a \div 2, b \div 2)

Shl(a, n, w) == (a * 2^n) % 2^w

Shr(a, n) == a \div 2^n

BoolAsU8(b) == IF b THEN 1 ELSE 0

----------------------------------------------------------------------------
(* Enumerations and the register map.                                      *)

FilterModes == {"Filter60Hz", "Filter50Hz"}

FilterModeAsU8(f) == CASE f = "Filter60Hz" -> 0
                       [] f = "Filter50Hz" -> 1

SensorTypes == {"TwoOrFourWire", "ThreeWire"}

SensorTypeAsU8(s) == CASE s = "TwoOrFourWire" -> 0
                       [] s = "ThreeWire" -> 1

Registers == {"CONFIG", "RTD_MSB", "RTD_LSB", "HIGH_FAULT_THRESHOLD_MSB",
              "HIGH_FAULT_THRESHOLD_LSB", "LOW_FAULT_THRESHOLD_MSB",
              "LOW_FAULT_THRESHOLD_LSB", "FAULT_STATUS"}

RegisterAsU8(r) == CASE r = "CONFIG" -> 0
                     [] r = "RTD_MSB" -> 1
                     [] r = "RTD_LSB" -> 2
                     [] r = "HIGH_FAULT_THRESHOLD_MSB" -> 3
                     [] r = "HIGH_FAULT_THRESHOLD_LSB" -> 4
                     [] r = "LOW_FAULT_THRESHOLD_MSB" -> 5
                     [] r = "LOW_FAULT_THRESHOLD_LSB" -> 6
                     [] r = "FAULT_STATUS" -> 7

R == Shl(0, 7, 8)

W == Shl(1, 7, 8)

read_address(r) == BitOr(RegisterAsU8(r), R)

\* A slip: the read flag where the write flag belongs.
write_address_read_flag(r) == BitOr(RegisterAsU8(r), R)

write_address(r) == BitOr(RegisterAsU8(r), W)

----------------------------------------------------------------------------
(* Outcomes the collaborators can give.                                    *)

\* Bytes the chip shifts out as a register's value.
BusBytes == {0, 1, 2, 44, 127, 254, 255}

\* Bytes shifted in while the address byte is shifted out.
EchoBytes == {0, 255}

\* Errors of the bus transport (the type E of spi::Write and spi::Transfer).
BusErrors == {"E1", "E2"}

\* Outcome of spi.write.
WriteOutcomes == {[ok |-> TRUE]} \cup {[ok |-> FALSE, err |-> e] : e \in BusErrors}

\* Outcome of spi.transfer on a 2-byte buffer.
TransferOutcomes ==
    {[ok |-> TRUE, rx |-> <<a, b>>] : a \in EchoBytes, b \in BusBytes}
    \cup {[ok |-> FALSE, err |-> e] : e \in BusErrors}

\* Outcome of rdy.is_low().
ReadyOutcomes == {"low", "high", "error"}

\* Arguments given to set_calibration (u32; 430000 is a 4300 ohm reference).
Calibrations == {0, 40000, 65536, 430000, 2147483647}

Ok(v) == [kind |-> "ok", val |-> v]

Err(e) == [kind |-> "err", val |-> e]

Pending == [kind |-> "pending", val |-> "none"]

Panicked == [kind |-> "panic", val |-> "attempt to multiply with overflow"]

NoTxn == [reg |-> "none", val |-> 0]

\* A pin drive whose call failed leaves the line where it was.
Drive(level, target, ok) == IF ok THEN target ELSE level

----------------------------------------------------------------------------
(* Pure parts of the public operations.                                    *)

\* A slip: ohms where ohms x 100 is meant.
default_calib_unscaled == 40000 \div 100

default_calib == 40000

\* A slip: the sensor type one bit too low.
conf_sensor_bit3(vbias, conversion_mode, one_shot, sensor_type, filter_mode) ==
    BitOr(BitOr(BitOr(BitOr(Shl(BoolAsU8(vbias), 7, 8),
                            Shl(BoolAsU8(conversion_mode), 6, 8)),
                      Shl(BoolAsU8(one_shot), 5, 8)),
                Shl(SensorTypeAsU8(sensor_type), 3, 8)),
          FilterModeAsU8(filter_mode))

\* configure: the configuration word.
conf(vbias, conversion_mode, one_shot, sensor_type, filter_mode) ==
    BitOr(BitOr(BitOr(BitOr(Shl(BoolAsU8(vbias), 7, 8),
                            Shl(BoolAsU8(conversion_mode), 6, 8)),
                      Shl(BoolAsU8(one_shot), 5, 8)),
                Shl(SensorTypeAsU8(sensor_type), 4, 8)),
          FilterModeAsU8(filter_mode))

\* A slip: the two bytes the wrong way round.
raw_of_swapped(m, l) == BitOr(Shl(l, 8, 16), m)

\* read_raw: (msb << 8) | lsb on u16.
raw_of(m, l) == BitOr(Shl(m, 8, 16), l)

\* A u32 as its two 16-bit halves (the checker's integers end at 2^31 - 1).
as_u32(n) == [hi |-> n \div 2^16, lo |-> n % 2^16]

\* u32 * u32 for a left factor below 2^15: the halves of the product before
\* the width is applied (hi is 2^16 or more when it does not fit in 32 bits).
mul_wide(x, c) ==
    [hi |-> x * c.hi + (x * c.lo) \div 2^16, lo |-> (x * c.lo) % 2^16]

\* The product as the u32 a build without overflow checks keeps.
wrap_u32(p) == [hi |-> p.hi % 2^16, lo |-> p.lo]

\* u32 >> 15.
shr15_u32(v) == v.hi * 2 + v.lo \div 2^15

\* A slip: the fault bit masked off the top instead of shifted out.
ratio_masked(raw) == raw % 2^15

\* read_default_conversion: raw >> 1, the 15-bit ratio without the fault bit.
ratio(raw) == Shr(raw, 1)

\* A slip: a shift by 16 where the ratio has 15 bits.
ohms_of_shr16(raw, calib) ==
    wrap_u32(mul_wide(ratio(raw), as_u32(calib))).hi

\* read_default_conversion: ((raw >> 1) as u32 * self.calibration) >> 15.
ohms_of(raw, calib) ==
    shr15_u32(wrap_u32(mul_wide(ratio(raw), as_u32(calib))))

\* A slip: the cast one size too narrow.
ohms_as_u8(ohms) == ohms % 2^8

\* ohms as u16.
ohms_as_u16(ohms) == ohms % 2^16

\* temp_conversion::lookup_temperature: a fixed table from ohms x 100 to
\* degrees x 100, strictly monotonic and so one result per argument; it is
\* kept as the term naming its argument.
lookup_temperature(ohms16) == <<"lookup_temperature", ohms16>>

\* Whether the multiplication leaves 32 bits.
mul_overflows(raw, calib) == mul_wide(ratio(raw), as_u32(calib)).hi >= 2^16

\* read_default_conversion after read_raw returned Ok(raw).
conversion(raw, calib, checks) ==
    IF checks /\ mul_overflows(raw, calib)
    THEN Panicked
    ELSE Ok(lookup_temperature(ohms_as_u16(ohms_of(raw, calib))))

\* is_ready: self.rdy.is_low().unwrap_or(false).
is_low(pin) == CASE pin = "low" -> Ok(TRUE)
                 [] pin = "high" -> Ok(FALSE)
                 [] pin = "error" -> Err("pin")

\* A slip: a failed pin read taken for "ready".
unwrap_or_ready(res, dflt) == IF res.kind = "ok" THEN res.val ELSE TRUE

unwrap_or(res, dflt) == IF res.kind = "ok" THEN res.val ELSE dflt

is_ready(pin) == unwrap_or(is_low(pin), FALSE)

----------------------------------------------------------------------------
(* Events and results.                                                     *)

\* A drive of the chip-select pin; level is the line after the call.
PinEvent(name, ok, level) == [e |-> name, ok |-> ok, level |-> level]

\* A bus primitive; tx is what was handed to it, level the chip-select line
\* during it.
BusEvent(name, tx, out, level) ==
    [e |-> name, tx |-> tx, out |-> out, level |-> level]

\* A read of the ready pin.
ReadyEvent(pin) == [e |-> "is_low", out |-> pin]

Value(v) == [kind |-> "value", val |-> v]

NoBuffer == <<0, 0>>

\* A slip: the transport's error replaced by a fixed one.
propagate_fixed(out) == Err("E1")

\* The ? operator on a failed bus primitive: the error goes to the caller.
propagate(out) == Err(out.err)

\* A slip: ? on the drive of chip-select, which ends the operation.
after_drive_checked(ok, next) == IF ok THEN next ELSE "idle"

\* .ok() on a drive of chip-select: its outcome is dropped and the
\* operation goes on to its next statement.
after_drive(ok, next) == next

\* A slip: the value sent without the register's address.
write_bytes_no_address(reg, val) == <<val, 0>>

\* write: &[reg.write_address(), val].
write_bytes(reg, val) == <<write_address(reg), val>>

\* A slip: the byte received during the address taken for the value.
read_value_first(buf) == buf[1]

\* A slip: the calibration kept in 16 bits.
stored_calibration_u16(calib) == calib % 2^16

\* set_calibration: self.calibration = calib.
stored_calibration(calib) == calib

\* mem::zeroed() and slice[0] = reg.read_address().
fresh_buffer(reg) == <<read_address(reg), 0>>

\* read: buffer[1] of the two bytes read_many returned.
read_value(buf) == buf[2]

----------------------------------------------------------------------------
(* The state before Max31865::new is called.                               *)

Init ==
    /\ overflow_checks \in BOOLEAN
    /\ ncs \in {"high", "low"}
    /\ calibration = 0
    /\ pc = "start"
    /\ call = [op |-> "none", args |-> <<>>]
    /\ txn = NoTxn
    /\ buffer = NoBuffer
    /\ msb = 0
    /\ events = <<>>
    /\ result = Pending

----------------------------------------------------------------------------
(* Max31865::new                                                           *)

New(ok) ==
    /\ pc = "start"
    /\ ncs' = Drive(ncs, "high", ok)
    /\ events' = <<PinEvent("set_high", ok, ncs')>>
    /\ calibration' = default_calib
    /\ call' = [op |-> "new", args |-> <<>>]
    /\ result' = Ok("Max31865")
    /\ pc' = "idle"
    /\ UNCHANGED <<overflow_checks, txn, buffer, msb>>

----------------------------------------------------------------------------
(* Max31865::write, entered from configure.                                *)

Configure(vbias, conversion_mode, one_shot, sensor_type, filter_mode) ==
    /\ pc = "idle"
    /\ call' = [op |-> "configure",
                args |-> <<vbias, conversion_mode, one_shot, sensor_type,
                           filter_mode>>]
    /\ txn' = [reg |-> "CONFIG",
               val |-> conf(vbias, conversion_mode, one_shot, sensor_type,
                            filter_mode)]
    /\ events' = <<>>
    /\ result' = Pending
    /\ pc' = "write_set_low"
    /\ UNCHANGED <<overflow_checks, ncs, calibration, buffer, msb>>

WriteSetLow(ok) ==
    /\ pc = "write_set_low"
    /\ ncs' = Drive(ncs, "low", ok)
    /\ events' = Append(events, PinEvent("set_low", ok, ncs'))
    /\ pc' = after_drive(ok, "write_spi")
    /\ UNCHANGED <<overflow_checks, calibration, call, txn, buffer, msb, result>>

WriteSpi(out) ==
    /\ pc = "write_spi"
    /\ events' = Append(events,
                        BusEvent("write", write_bytes(txn.reg, txn.val),
                                 out, ncs))
    /\ IF out.ok
       THEN /\ pc' = "write_set_high"
            /\ UNCHANGED <<txn, result>>
       ELSE /\ result' = propagate(out)
            /\ txn' = NoTxn
            /\ pc' = "idle"
    /\ UNCHANGED <<overflow_checks, ncs, calibration, call, buffer, msb>>

WriteSetHigh(ok) ==
    /\ pc = "write_set_high"
    /\ ncs' = Drive(ncs, "high", ok)
    /\ events' = Append(events, PinEvent("set_high", ok, ncs'))
    /\ result' = Ok("unit")
    /\ txn' = NoTxn
    /\ pc' = "idle"
    /\ UNCHANGED <<overflow_checks, calibration, call, buffer, msb>>

----------------------------------------------------------------------------
(* set_calibration and is_ready                                            *)

SetCalibration(calib) ==
    /\ pc = "idle"
    /\ calibration' = stored_calibration(calib)
    /\ call' = [op |-> "set_calibration", args |-> <<calib>>]
    /\ events' = <<>>
    /\ result' = Ok("unit")
    /\ UNCHANGED <<overflow_checks, ncs, pc, txn, buffer, msb>>

IsReady(pin) ==
    /\ pc = "idle"
    /\ call' = [op |-> "is_ready", args |-> <<>>]
    /\ events' = <<ReadyEvent(pin)>>
    /\ result' = Value(is_ready(pin))
    /\ UNCHANGED <<overflow_checks, ncs, calibration, pc, txn, buffer, msb>>

----------------------------------------------------------------------------
(* read_raw and read_default_conversion, over read and read_many.          *)

ReadRaw ==
    /\ pc = "idle"
    /\ call' = [op |-> "read_raw", args |-> <<>>]
    /\ txn' = [reg |-> "RTD_MSB", val |-> 0]
    /\ events' = <<>>
    /\ result' = Pending
    /\ pc' = "read_set_low"
    /\ UNCHANGED <<overflow_checks, ncs, calibration, buffer, msb>>

ReadDefaultConversion ==
    /\ pc = "idle"
    /\ call' = [op |-> "read_default_conversion", args |-> <<>>]
    /\ txn' = [reg |-> "RTD_MSB", val |-> 0]
    /\ events' = <<>>
    /\ result' = Pending
    /\ pc' = "read_set_low"
    /\ UNCHANGED <<overflow_checks, ncs, calibration, buffer, msb>>

ReadSetLow(ok) ==
    /\ pc = "read_set_low"
    /\ buffer' = fresh_buffer(txn.reg)
    /\ ncs' = Drive(ncs, "low", ok)
    /\ events' = Append(events, PinEvent("set_low", ok, ncs'))
    /\ pc' = after_drive(ok, "read_transfer")
    /\ UNCHANGED <<overflow_checks, calibration, call, txn, msb, result>>

ReadTransfer(out) ==
    /\ pc = "read_transfer"
    /\ events' = Append(events, BusEvent("transfer", buffer, out, ncs))
    /\ IF out.ok
       THEN /\ buffer' = out.rx
            /\ pc' = "read_set_high"
            /\ UNCHANGED <<txn, msb, result>>
       ELSE /\ result' = propagate(out)
            /\ buffer' = NoBuffer
            /\ txn' = NoTxn
            /\ msb' = 0
            /\ pc' = "idle"
    /\ UNCHANGED <<overflow_checks, ncs, calibration, call>>

\* The end of read_many, and what read_raw and read_default_conversion do
\* with the byte that read returns.
ReadSetHigh(ok) ==
    /\ pc = "read_set_high"
    /\ ncs' = Drive(ncs, "high", ok)
    /\ events' = Append(events, PinEvent("set_high", ok, ncs'))
    /\ buffer' = NoBuffer
    /\ IF txn.reg = "RTD_MSB"
       THEN /\ msb' = read_value(buffer)
            /\ txn' = [reg |-> "RTD_LSB", val |-> 0]
            /\ pc' = "read_set_low"
            /\ UNCHANGED result
       ELSE /\ result' = IF call.op = "read_raw"
                         THEN Ok(raw_of(msb, read_value(buffer)))
                         ELSE conversion(raw_of(msb, read_value(buffer)),
                                         calibration, overflow_checks)
            /\ msb' = 0
            /\ txn' = NoTxn
            /\ pc' = IF result'.kind = "panic" THEN "panicked" ELSE "idle"
    /\ UNCHANGED <<overflow_checks, calibration, call>>

----------------------------------------------------------------------------

Next ==
    \/ \E ok \in BOOLEAN : New(ok)
    \/ \E v \in BOOLEAN, c \in BOOLEAN, o \in BOOLEAN,
          s \in SensorTypes, f \in FilterModes : Configure(v, c, o, s, f)
    \/ \E ok \in BOOLEAN : WriteSetLow(ok)
    \/ \E out \in WriteOutcomes : WriteSpi(out)
    \/ \E ok \in BOOLEAN : WriteSetHigh(ok)
    \/ \E calib \in Calibrations : SetCalibration(calib)
    \/ \E pin \in ReadyOutcomes : IsReady(pin)
    \/ ReadRaw
    \/ ReadDefaultConversion
    \/ \E ok \in BOOLEAN : ReadSetLow(ok)
    \/ \E out \in TransferOutcomes : ReadTransfer(out)
    \/ \E ok \in BOOLEAN : ReadSetHigh(ok)

Spec == Init /\ [][Next]_vars

----------------------------------------------------------------------------
(* The conversion on every 16-bit sample: read_default_conversion at the   *)
(* return of its second register read, the two bytes received being any    *)
(* two bytes, and its last step.                                           *)

\* Calibrations up to 2^16, the ends of that range and the default.
ConvCalibrations == {0, 1, 40000, 65535, 65536}

ConvInit ==
    /\ overflow_checks \in BOOLEAN
    /\ ncs = "low"
    /\ calibration \in ConvCalibrations
    /\ pc = "read_set_high"
    /\ call = [op |-> "read_default_conversion", args |-> <<>>]
    /\ txn = [reg |-> "RTD_LSB", val |-> 0]
    /\ msb \in 0..255
    /\ \E lsb \in 0..255 :
          /\ buffer = <<0, lsb>>
          /\ events = <<PinEvent("set_low", TRUE, "low"),
                        BusEvent("transfer", fresh_buffer("RTD_MSB"),
                                 [ok |-> TRUE, rx |-> <<0, msb>>], "low"),
                        PinEvent("set_high", TRUE, "high"),
                        PinEvent("set_low", TRUE, "low"),
                        BusEvent("transfer", fresh_buffer("RTD_LSB"),
                                 [ok |-> TRUE, rx |-> <<0, lsb>>], "low")>>
    /\ result = Pending

ConvNext == ReadSetHigh(TRUE)

ConvSpec == ConvInit /\ [][ConvNext]_vars

----------------------------------------------------------------------------
(* What the properties below read off a state.                             *)

BusOps == {"configure", "read_raw", "read_default_conversion"}

IsPinEvent(ev) == ev.e \in {"set_low", "set_high"}

IsBusEvent(ev) == ev.e \in {"write", "transfer"}

\* The operation entered last has returned to its caller.
Returned(op) == pc = "idle" /\ call.op = op

\* Every chip-select drive of the operation succeeded.
AllDrivesOk == \A i \in 1..Len(events) : IsPinEvent(events[i]) => events[i].ok

EventNames == [i \in 1..Len(events) |-> events[i].e]

TwoReads == <<"set_low", "transfer", "set_high",
              "set_low", "transfer", "set_high">>

\* Both register reads of read_raw went through.
BothReadsDone ==
    /\ call.op \in {"read_raw", "read_default_conversion"}
    /\ pc \in {"idle", "panicked"}
    /\ EventNames = TwoReads

\* The sample the chip sent: the second byte of each transfer.
MsbRead == events[2].out.rx[2]

LsbRead == events[5].out.rx[2]

RawRead == MsbRead * 256 + LsbRead

\* (x * c) >> 15 for x below 2^15 and c below 2^31, from c = q * 2^15 + r.
Scaled(x, c) == x * (c \div 2^15) + (x * (c % 2^15)) \div 2^15

\* The same, truncated to 16 bits.
ScaledU16(x, c) == Scaled(x, c) % 2^16

\* x * c is 2^32 or more.
LeavesU32(x, c) == Scaled(x, c) >= 2^17

----------------------------------------------------------------------------
\* C1: when configure, read_raw or read_default_conversion has returned and
\* every chip-select drive it made succeeded, chip-select is high, whether
\* the bus primitive succeeded or failed.
C1_ChipSelectHighAfterTransaction ==
    (pc = "idle" /\ call.op \in BusOps /\ AllDrivesOk) => ncs = "high"

\* C2: when the drive of chip-select in construct fails, construct returns
\* the pin's error and no driver.
C2_ConstructFailsOnPinError ==
    (call.op = "new" /\ ~events[1].ok) => result.kind = "err"

\* C3 as stated: calibration 40000 and raw 0x7FFE give ohms in 39999..40001.
C3_OhmsNearReference ==
    (Returned("read_default_conversion") /\ BothReadsDone
        /\ calibration = 40000 /\ RawRead = 32766)
    => /\ result.kind = "ok"
       /\ result.val[2] \in 39999..40001

\* C3 as amended: calibration 40000 and raw 0x7FFE give ohms = 19998, half
\* the reference; the full-scale sample 0xFFFE gives 39998.
C3_OhmsHalfReference ==
    (Returned("read_default_conversion") /\ BothReadsDone
        /\ calibration = 40000)
    => /\ RawRead = 32766 => result = Ok(lookup_temperature(19998))
       /\ RawRead = 65534 => result = Ok(lookup_temperature(39998))

C3_Witness ==
    /\ Returned("read_default_conversion") /\ BothReadsDone
    /\ calibration = 40000 /\ RawRead = 32766
    /\ result.kind = "ok"

\* The byte configure hands to the bus after the address, and the inputs
\* as the numbers the claim gives them.
ConfByte == events[2].tx[2]

ConfWritten == call.op = "configure" /\ Len(events) >= 2

ArgBit(i) == CASE i \in 1..3 -> IF call.args[i] THEN 1 ELSE 0
               [] i = 4 -> IF call.args[4] = "ThreeWire" THEN 1 ELSE 0
               [] i = 5 -> IF call.args[5] = "Filter50Hz" THEN 1 ELSE 0

Toggled(i) ==
    CASE i \in 1..3 -> ~call.args[i]
      [] i = 4 -> IF call.args[4] = "ThreeWire" THEN "TwoOrFourWire"
                                               ELSE "ThreeWire"
      [] i = 5 -> IF call.args[5] = "Filter50Hz" THEN "Filter60Hz"
                                                ELSE "Filter50Hz"

ToggledArgs(i) == [call.args EXCEPT ![i] = Toggled(i)]

ConfOf(a) == conf(a[1], a[2], a[3], a[4], a[5])

BitOf(byte, k) == (byte \div 2^k) % 2

FieldBit == <<7, 6, 5, 4, 0>>

\* C4: the byte sent to CONFIG is v_bias*128 + conversion_mode*64 +
\* one_shot*32 + sensor_type*16 + filter_mode, bits 1..3 are zero, and
\* toggling one input flips that input's bit and no other.
C4_ConfigurationWord ==
    ConfWritten =>
        /\ events[2].e = "write"
        /\ ConfByte = 128 * ArgBit(1) + 64 * ArgBit(2) + 32 * ArgBit(3)
                      + 16 * ArgBit(4) + ArgBit(5)
        /\ \A k \in 1..3 : BitOf(ConfByte, k) = 0
        /\ \A i \in 1..5 : \A k \in 0..7 :
               BitOf(ConfOf(ToggledArgs(i)), k) =
                   IF k = FieldBit[i] THEN 1 - BitOf(ConfByte, k)
                                      ELSE BitOf(ConfByte, k)
        /\ call.args = <<TRUE, FALSE, FALSE, "TwoOrFourWire", "Filter60Hz">>
               => ConfByte = 128
        /\ call.args = <<TRUE, TRUE, FALSE, "ThreeWire", "Filter50Hz">>
               => ConfByte = 209

C4_Witness ==
    /\ Returned("configure") /\ result.kind = "ok"
    /\ call.args = <<TRUE, TRUE, FALSE, "ThreeWire", "Filter50Hz">>
    /\ ConfByte = 209

\* C5: for each of the eight registers, at 0x00..0x07, the read address has
\* bit 7 clear, the write address has it set, they differ in that bit only
\* and their low 7 bits are the register's base address; so does every
\* address byte the driver puts on the bus.
C5_AddressEncoding ==
    /\ {RegisterAsU8(r) : r \in Registers} = 0..7
    /\ \A r \in Registers :
          /\ BitOf(read_address(r), 7) = 0
          /\ BitOf(write_address(r), 7) = 1
          /\ write_address(r) \in 128..255
          /\ write_address(r) = read_address(r) + 128
          /\ read_address(r) % 128 = RegisterAsU8(r)
          /\ write_address(r) % 128 = RegisterAsU8(r)
          /\ read_address(r) # write_address(r)
    /\ \A i \in 1..Len(events) :
          /\ events[i].e = "transfer" => BitOf(events[i].tx[1], 7) = 0
          /\ events[i].e = "write" => BitOf(events[i].tx[1], 7) = 1

C5_Witness ==
    /\ Returned("configure")
    /\ Len(events) >= 2
    /\ events[2].e = "write"
    /\ events[2].tx[1] = 128

\* C6: a read_raw that succeeds drives chip-select low, transfers the two
\* bytes <<0x01, 0x00>>, drives chip-select high, and does the same with
\* <<0x02, 0x00>>, and nothing else; where the drives succeed chip-select is
\* low during each transfer and high between them; the result is
\* msb * 256 + lsb of the second bytes received.
C6_ReadRawTwoTransactions ==
    (Returned("read_raw") /\ result.kind = "ok") =>
        /\ EventNames = TwoReads
        /\ events[2].tx = <<1, 0>>
        /\ events[5].tx = <<2, 0>>
        /\ events[2].out.ok /\ events[5].out.ok
        /\ \A i \in {1, 4} : events[i].ok => /\ events[i].level = "low"
                                             /\ events[i + 1].level = "low"
        /\ \A i \in {3, 6} : events[i].ok => events[i].level = "high"
        /\ result.val = MsbRead * 256 + LsbRead
        /\ (MsbRead = 1 /\ LsbRead = 2) => result.val = 258

C6_Witness ==
    /\ Returned("read_raw") /\ result.kind = "ok"
    /\ AllDrivesOk
    /\ MsbRead = 1 /\ LsbRead = 2
    /\ result.val = 258

FailedAt(i) == IsBusEvent(events[i]) /\ ~events[i].out.ok

\* C7: a bus primitive that fails is the last thing the operation does: the
\* operation has returned that very error, the failing transfer was tried
\* once, no transfer follows it (after a failed RTD_MSB read there is no
\* RTD_LSB read), and an operation returns an error only so.
C7_TransportErrorPropagated ==
    /\ \A i \in 1..Len(events) :
          FailedAt(i) => /\ i = Len(events)
                         /\ pc = "idle"
                         /\ result = Err(events[i].out.err)
                         /\ \A j \in 1..Len(events) :
                                (IsBusEvent(events[j]) /\ j # i)
                                    => events[j].tx[1] # events[i].tx[1]
                         /\ events[i].tx[1] = 1 =>
                                \A j \in 1..Len(events) :
                                    IsBusEvent(events[j]) => j = i
    /\ result.kind = "err" => /\ Len(events) > 0
                              /\ FailedAt(Len(events))
                              /\ call.op \in BusOps

C7_Witness ==
    /\ Returned("read_default_conversion")
    /\ Len(events) = 5
    /\ FailedAt(5)
    /\ events[5].tx[1] = 2
    /\ result = Err("E2")

\* C8: is_ready returns a plain boolean, never an error: TRUE when the read
\* of the ready pin succeeds and reports low, FALSE when it reports high and
\* FALSE when the read fails.
C8_IsReady ==
    call.op = "is_ready" =>
        /\ result.kind = "value"
        /\ result.val \in BOOLEAN
        /\ result.val <=> events[1].out = "low"

C8_Witness ==
    /\ call.op = "is_ready"
    /\ events[1].out = "error"
    /\ result = Value(FALSE)

\* C9: read_default_conversion, once read_raw gave it raw, returns
\* lookup(((raw >> 1) * c) >> 15 truncated to 16 bits) for the stored
\* calibration c.
C9_ConversionOfStoredCalibration ==
    (call.op = "read_default_conversion" /\ BothReadsDone) =>
        result = Ok(lookup_temperature(ScaledU16(RawRead \div 2, calibration)))

FlipBit0(raw) == IF raw % 2 = 1 THEN raw - 1 ELSE raw + 1

ClearBit0(raw) == raw - (raw % 2)

----------------------------------------------------------------------------
\* What the bus primitives of the operation answered, in order.
BusAnswers == SelectSeq(events, IsBusEvent)

\* The result of the operation read off the bus answers alone.
ResultFromBus ==
    LET a == BusAnswers
        failed == {i \in 1..Len(a) : ~a[i].out.ok}
    IN  IF failed # {}
        THEN Err(a[CHOOSE i \in failed : TRUE].out.err)
        ELSE CASE call.op = "configure" -> Ok("unit")
               [] call.op = "read_raw" -> Ok(a[1].out.rx[2] * 256 + a[2].out.rx[2])
               [] call.op = "read_default_conversion" ->
                      conversion(a[1].out.rx[2] * 256 + a[2].out.rx[2],
                                 calibration, overflow_checks)

SomeDriveFailed == \E i \in 1..Len(events) : IsPinEvent(events[i]) /\ ~events[i].ok

\* C11: a drive of chip-select that fails inside write or read_many changes
\* nothing else: the bus primitive still follows each drive low, once, the
\* drive high still follows each primitive that succeeded, and the operation
\* returns what the answers of the bus alone determine.
C11_PinFailuresDiscarded ==
    /\ \A i \in 1..Len(events) :
          events[i].e = "set_low" =>
              /\ i = Len(events) => pc \in {"write_spi", "read_transfer"}
              /\ i < Len(events) => IsBusEvent(events[i + 1])
              /\ (i + 1 < Len(events)) => events[i + 2].e = "set_high"
              /\ (i + 1 = Len(events) /\ events[i + 1].out.ok)
                     => pc \in {"write_set_high", "read_set_high"}
    /\ (pc \in {"idle", "panicked"} /\ call.op \in BusOps) =>
          /\ Len(BusAnswers) = IF call.op = "configure" \/ ~BusAnswers[1].out.ok
                               THEN 1 ELSE 2
          /\ result = ResultFromBus

C11_Witness ==
    /\ Returned("read_raw") /\ result.kind = "ok"
    /\ Len(events) = 6
    /\ \A i \in {1, 3, 4, 6} : ~events[i].ok

\* C12: a configure that succeeds drives chip-select low, writes the two
\* bytes <<0x80, word>> in one bus write, drives chip-select high, and does
\* nothing else; it makes no bidirectional transfer.
C12_ConfigureSequence ==
    (Returned("configure") /\ result.kind = "ok") =>
        /\ EventNames = <<"set_low", "write", "set_high">>
        /\ events[2].tx = <<128, 128 * ArgBit(1) + 64 * ArgBit(2)
                                 + 32 * ArgBit(3) + 16 * ArgBit(4) + ArgBit(5)>>
        /\ events[2].out.ok
        /\ \A i \in 1..Len(events) : events[i].e # "transfer"

C12_Witness ==
    /\ Returned("configure") /\ result.kind = "ok"
    /\ AllDrivesOk
    /\ events[2].tx = <<128, 209>>
    /\ ncs = "high"

\* C13: construct drives chip-select high once before it returns (the line
\* is high where that drive succeeds), touches the bus not at all, and the
\* driver it returns holds the calibration 40000.
C13_Construct ==
    (call.op = "new" /\ result.kind = "ok") =>
        /\ pc = "idle"
        /\ EventNames = <<"set_high">>
        /\ events[1].ok => ncs = "high"
        /\ calibration = 40000

C13_Witness ==
    /\ call.op = "new" /\ result.kind = "ok"
    /\ events[1].ok
    /\ ncs = "high"
    /\ calibration = 40000

\* The first register read of the operation has returned to read_raw.
FirstReadReturned ==
    /\ call.op \in {"read_raw", "read_default_conversion"}
    /\ Len(events) >= 3
    /\ events[3].e = "set_high"

\* C14: a register read that succeeds drives chip-select low, makes one
\* transfer over the two bytes <<read_address(r), 0x00>>, drives chip-select
\* high; its value is the second byte received, whatever the first; a read
\* never uses the bus write.
C14_SingleRegisterRead ==
    /\ FirstReadReturned =>
          /\ SubSeq(EventNames, 1, 3) = <<"set_low", "transfer", "set_high">>
          /\ events[2].tx = <<1, 0>>
          /\ Len(events) = 3 => msb = events[2].out.rx[2]
    /\ (Returned("read_raw") /\ result.kind = "ok") =>
          /\ SubSeq(EventNames, 4, 6) = <<"set_low", "transfer", "set_high">>
          /\ events[5].tx = <<2, 0>>
          /\ result.val \div 256 = events[2].out.rx[2]
          /\ result.val % 256 = events[5].out.rx[2]
    /\ call.op \in {"read_raw", "read_default_conversion"} =>
          \A i \in 1..Len(events) : events[i].e # "write"

C14_Witness ==
    /\ FirstReadReturned
    /\ Len(events) = 3
    /\ events[2].out.rx = <<255, 44>>
    /\ msb = 44

\* The ohms of the sample received, before any width is applied.
OhmsRead == Scaled(RawRead \div 2, calibration)

\* C15: for every 16-bit sample and a calibration c of at most 65536, the
\* product (raw >> 1) * c stays below 2^32, so the call returns in every
\* build; ohms is at most c and at most 65535, so the lookup gets ohms
\* itself; with c = 40000 it gets at most 39998.
C15_OhmsFitsU16 ==
    (call.op = "read_default_conversion" /\ BothReadsDone
        /\ calibration <= 65536)
    => /\ ~LeavesU32(RawRead \div 2, calibration)
       /\ result = Ok(lookup_temperature(OhmsRead))
       /\ OhmsRead <= calibration
       /\ OhmsRead <= 65535
       /\ calibration = 40000 => OhmsRead <= 39998

C15_Witness ==
    /\ Returned("read_default_conversion") /\ BothReadsDone
    /\ overflow_checks
    /\ RawRead = 65535
    /\ calibration = 65536
    /\ result = Ok(lookup_temperature(65534))

\* A step in which the caller enters and leaves op without a bus operation.
StepOf(op) == pc = "idle" /\ pc' = "idle" /\ call'.op = op

\* C16: the stored calibration changes only in set_calibration (construct
\* sets it first); set_calibration stores its argument and returns Ok
\* whatever the argument; set_calibration and is_ready drive no pin and use
\* no bus.
C16_CalibrationFrame ==
    [][/\ calibration' # calibration =>
             \/ pc = "start" /\ call'.op = "new"
             \/ StepOf("set_calibration")
       /\ StepOf("set_calibration") =>
             /\ calibration' = call'.args[1]
             /\ result' = Ok("unit")
             /\ events' = <<>>
             /\ ncs' = ncs
       /\ StepOf("is_ready") =>
             /\ calibration' = calibration
             /\ ncs' = ncs
             /\ \A i \in 1..Len(events') :
                    ~IsPinEvent(events'[i]) /\ ~IsBusEvent(events'[i])
      ]_vars

C16_Witness ==
    /\ Returned("set_calibration")
    /\ call.args = <<430000>>
    /\ calibration = 430000
    /\ result = Ok("unit")
    /\ events = <<>>

====
